---- MODULE Spec2Model ----
(***************************************************************************)
(* Model of the child-generation engine of morpho-ga (src/ga_search.py):   *)
(* GASearch.generate_child with its parent selection (tinydb search,       *)
(* sort_pool, limit), the three breeding branches, limit_to_precision,     *)
(* the duplicate check and the schema validation gate.                     *)
(*                                                                         *)
(* Numbers are fixed-point decimals with one fractional digit: the integer *)
(* n stands for n / Radix (105 is 10.5).  Significant digits are those of  *)
(* the decimal expansion, so they do not depend on the position of the     *)
(* decimal point.  An optional Python value (None or v) is the sequence    *)
(* << >> or << v >>.  A record (a dict) is a function from field names to  *)
(* numbers; the empty dict is Empty.                                       *)
(***************************************************************************)
EXTENDS Integers, Sequences, FiniteSets

VARIABLES schema,         \* self.schema.fields, fixed after load_schema
          record_table,   \* the "records" table of the local database, in doc_id order
          parents,        \* local `parents` of the call at the end of the try block
          parent_count,   \* kwargs.get("parent_count") of the call, << >> when absent
          branch,         \* branch the call took: "random", "mutate", "crossover"; "none" if it never got there
          parent1,        \* crossover: first drawn parent (Empty otherwise)
          parent2,        \* crossover: second drawn parent (Empty otherwise)
          draws,          \* the random draws of the call, per field name
          pre,            \* per field, the value the branch produced before limit_to_precision
          record,         \* local `record` of the call when the try block was left
          error,          \* "no", or the stage that raised inside the try block: "select", "breed"
          result          \* what the call gave its caller; "idle" between calls

vars == << schema, record_table, parents, parent_count, branch,
           parent1, parent2, draws, pre, record, error, result >>

\* Cap on len(record_table): generate_child is not called on a fuller table.
MaxTable == 4

\* decimal.Decimal works in base ten; also the fixed-point unit (one fractional digit).
Radix == 10

\* Twice the default of uniform_line's UNIF_SIGMA_X (0.5).
UNIF_SIGMA_X2 == 1

Empty == [n \in {} |-> 0]

Has(doc, name) == name \in DOMAIN doc

Abs(v) == IF v < 0 THEN -v ELSE v

Min(a, b) == IF a <= b THEN a ELSE b

Max(a, b) == IF a >= b THEN a ELSE b

\* dict with one more key assigned: record[name] = v
Put(doc, name, v) == [n \in DOMAIN doc \cup {name} |-> IF n = name THEN v ELSE doc[n]]

(***************************************************************************)
(* Schemas a project can carry (MorphoProjectSchema.fields): name, type,   *)
(* range, step, optional precision.                                        *)
(***************************************************************************)
Field(name, type, lo, hi, step, precision) ==
    [field_name |-> name, field_type |-> type, field_range |-> << lo, hi >>,
     field_step |-> step, field_precision |-> precision]

SchemaA == << Field("x", "FLOAT", 105, 112, 5, << 2 >>), Field("y", "INT", 0, 20, 10, << >>) >>

SchemaB == << Field("x", "DOUBLE", -112, -98, 5, << 2 >>) >>

SchemaC == << Field("x", "INT", 5, 25, 10, << >>) >>

SchemaD == << Field("x", "FLOAT", 0, 20, 10, << 0 >>) >>

\* The projects a search can be opened on: the schema, and what the server holds
\* for it (load_records stores the parameters it fetches unvalidated).
Projects ==
    { << SchemaA, << >> >>,
      << SchemaA, << [x |-> 110, y |-> 20] >> >>,
      << SchemaA, << [x |-> 111, y |-> 10, fit |-> 2], [x |-> 110, y |-> 0, fit |-> 1] >> >>,
      << SchemaA, << [x |-> 112, y |-> 30], [x |-> 110] >> >>,
      << SchemaB, << >> >>,
      << SchemaB, << [x |-> -110], [x |-> -108, y |-> 0] >> >>,
      << SchemaB, << [x |-> 111, y |-> 10, fit |-> 2], [x |-> -99, y |-> 0, fit |-> 1] >> >>,
      << SchemaC, << >> >>,
      << SchemaC, << [x |-> 15], [x |-> 10] >> >>,
      << SchemaC, << [x |-> 110, y |-> 20] >> >>,
      << SchemaD, << >> >>,
      << SchemaD, << [x |-> 10] >> >> }

FieldNames == { schema[i].field_name : i \in DOMAIN schema }

FieldOf(name) == CHOOSE f \in { schema[i] : i \in DOMAIN schema } : f.field_name = name

(***************************************************************************)
(* Parent selection: record_table.search, sort_pool, the limit slice.      *)
(***************************************************************************)

\* The fitness queries callers pass: Q[field] >= least.
Queries == { [field |-> "x", least |-> -200],
             [field |-> "y", least |-> 10],
             [field |-> "fit", least |-> 2] }

SortConditions == { << >>, << "x" >>, << "y" >>, << "fit" >> }

Limits == { << >>, << 0 >>, << 1 >>, << 2 >> }

ParentCounts == { << >>, << 0 >>, << 1 >>, << 2 >> }

\* tinydb evaluates a query on a document that lacks the field to False.
Test(query, doc) == Has(doc, query.field) /\ doc[query.field] >= query.least

\* Table.search: the matching documents in doc_id order.
Search(table, query) == SelectSeq(table, LAMBDA doc : Test(query, doc))

\* sorted(pool, key=..., reverse=not ascending): stable in both directions.
RECURSIVE Sorted(_, _, _)
Sorted(pool, field_name, ascending) ==
    IF pool = << >> THEN << >>
    ELSE LET n == Len(pool)
             init == Sorted(SubSeq(pool, 1, n - 1), field_name, ascending)
             doc == pool[n]
             k == Cardinality({ i \in DOMAIN init :
                        IF ascending THEN init[i][field_name] <= doc[field_name]
                                     ELSE init[i][field_name] >= doc[field_name] })
         IN SubSeq(init, 1, k) \o << doc >> \o SubSeq(init, k + 1, n - 1)

\* sort_pool raises KeyError when pool[0] lacks the field (the explicit check)
\* or when the key function reaches any document that lacks it.
sort_pool(pool, field_name, ascending) ==
    IF Len(pool) > 0 /\ ~Has(pool[1], field_name)
    THEN [raised |-> TRUE, value |-> pool]
    ELSE IF \E i \in DOMAIN pool : ~Has(pool[i], field_name)
    THEN [raised |-> TRUE, value |-> pool]
    ELSE [raised |-> FALSE, value |-> Sorted(pool, field_name, ascending)]

\* parents[:limit_value]
Slice(pool, limit_value) ==
    IF limit_value >= 0 THEN SubSeq(pool, 1, Min(limit_value, Len(pool)))
    ELSE SubSeq(pool, 1, Max(0, Len(pool) + limit_value))

\* Lines 126-130.  When sort_pool raises, `parents` still holds the search result.
SelectParents(table, fitness_query, sort_cond, sort_ascending, limit_value) ==
    LET found == Search(table, fitness_query)
        sorted == IF sort_cond = << >> THEN [raised |-> FALSE, value |-> found]
                  ELSE sort_pool(found, sort_cond[1], sort_ascending)
    IN IF sorted.raised THEN [raised |-> TRUE, value |-> found]
       ELSE [raised |-> FALSE,
             value |-> IF limit_value = << >> THEN sorted.value
                       ELSE Slice(sorted.value, limit_value[1])]

(***************************************************************************)
(* limit_to_precision: Decimal(value) / Decimal(1) under                   *)
(* Context(prec=precision, rounding=ROUND_DOWN).                           *)
(***************************************************************************)
RECURSIVE NumDigits(_)
NumDigits(n) == IF n < Radix THEN 1 ELSE 1 + NumDigits(n \div Radix)

RECURSIVE Pow(_)
Pow(k) == IF k <= 0 THEN 1 ELSE Radix * Pow(k - 1)

\* decimal.Context refuses prec < 1 with ValueError.
PrecisionRaises(precision) == precision < 1

\* Mutant: the context rounds half up (to nearest) instead of down.
limit_to_precision_half_up(value, precision) ==
    LET n == Abs(value)
        drop == Pow(NumDigits(n) - precision)
        kept == ((2 * n + drop) \div (2 * drop)) * drop
    IN IF value < 0 THEN -kept ELSE kept

\* ROUND_DOWN drops the digits after the first `precision` significant ones: toward zero.
limit_to_precision(value, precision) ==
    LET n == Abs(value)
        drop == Pow(NumDigits(n) - precision)
        kept == (n \div drop) * drop
    IN IF value < 0 THEN -kept ELSE kept

(***************************************************************************)
(* The breeding branches of generate_child (lines 139-209).                *)
(***************************************************************************)

\* Mutant: the override, when given, alone decides the branch.
BranchByOverride(n, count) ==
    LET m == IF count # << >> THEN count[1] ELSE n
    IN IF m = 0 THEN "random" ELSE IF m = 1 THEN "mutate" ELSE "crossover"

\* Lines 139, 155, 173: the if / elif / else over len(parents) and kwargs["parent_count"].
Branch(n, count) ==
    IF n = 0 \/ (count # << >> /\ count[1] = 0) THEN "random"
    ELSE IF n = 1 \/ (count # << >> /\ count[1] = 1) THEN "mutate"
    ELSE "crossover"

\* int(): the whole part, toward zero.
IntPart(v) == IF v < 0 THEN -(Abs(v) \div Radix) ELSE v \div Radix

Clamp(field, v) == Min(field.field_range[2], Max(field.field_range[1], v))

\* Outcomes of random.random() in uniform_line, in eighths: mu = -1/4, 1/2 and 5/4.
RDraws == { 1, 4, 7 }

Draw(u, sign, chance, pick, r) == [u |-> u, sign |-> sign, chance |-> chance, pick |-> pick, r |-> r]

\* The outcomes of the random module's calls in one branch, for one field:
\*   random:    u, the grid offset of random.random() * (max - min) for a FLOAT or
\*              DOUBLE field, the value of random.randint(int(min), int(max)) for an INT field;
\*   mutate:    sign = random.choice([-1, 1]);
\*   crossover: chance = random.randint(1, 2); pick, the index random.choice takes
\*              when chance = 1; r, with random.random() = r / 8, when chance = 2.
DrawSpace(br, field) ==
    LET lo == field.field_range[1]
        hi == field.field_range[2]
    IN CASE br = "random" ->
              IF field.field_type = "INT"
              THEN { Draw(k, 0, 0, 0, 0) : k \in IntPart(lo) .. IntPart(hi) }
              ELSE { Draw(k, 0, 0, 0, 0) : k \in 0 .. Max(0, hi - lo - 1) }
         [] br = "mutate" -> { Draw(0, s, 0, 0, 0) : s \in { -1, 1 } }
         [] br = "crossover" ->
              { Draw(0, 0, 1, k, 0) : k \in { 1, 2 } }
                \cup { Draw(0, 0, 2, 0, k) : k \in RDraws }
         [] OTHER -> { Draw(0, 0, 0, 0, 0) }

DrawFunctions(br) ==
    { d \in [FieldNames -> UNION { DrawSpace(br, schema[i]) : i \in DOMAIN schema }] :
        \A n \in FieldNames : d[n] \in DrawSpace(br, FieldOf(n)) }

\* uniform_line: min(v1, v2) + |v1 - v2| * mu, mu = (1 + 2 U) R - U, R = r / 8,
\* the product rounded down to the fixed-point grid.
uniform_line(value1, value2, r) ==
    LET diff == Abs(value1 - value2)
    IN Min(value1, value2)
         + (diff * ((2 + 2 * UNIF_SIGMA_X2) * r - UNIF_SIGMA_X2 * 8)) \div (2 * 8)

\* Lines 142-148: one field of a randomly generated record.
RandomValue(field, d) ==
    IF field.field_type = "INT" THEN d.u * Radix ELSE field.field_range[1] + d.u

\* Mutant: the clamp is applied to the parent's value, before the step.
MutatedValueClampFirst(field, parent, d) ==
    Clamp(field, parent[field.field_name]) + d.sign * field.field_step

\* Mutant: the clamp is missing.
MutatedValueUnclamped(field, parent, d) ==
    parent[field.field_name] + d.sign * field.field_step

\* Lines 162-168: parent value plus or minus the step, clamped afterwards.
MutatedValue(field, parent, d) ==
    Clamp(field, parent[field.field_name] + d.sign * field.field_step)

\* Mutant: a bred gene is always interpolated and clamped, agreeing parents or not.
CrossedValueAlwaysInterpolates(field, p1, p2, d) ==
    LET v1 == p1[field.field_name]
        v2 == p2[field.field_name]
    IN IF d.chance = 2
       THEN Clamp(field, uniform_line(v1, v2, d.r))
       ELSE IF d.pick = 1 THEN v1 ELSE v2

\* Lines 187-204: one gene of a crossover.
CrossedValue(field, p1, p2, d) ==
    LET v1 == p1[field.field_name]
        v2 == p2[field.field_name]
    IN IF d.chance = 2
       THEN IF v1 = v2 THEN v1 ELSE Clamp(field, uniform_line(v1, v2, d.r))
       ELSE IF d.pick = 1 THEN v1 ELSE v2

\* The value a branch produces for one field, or the exception of reading it from a
\* parent: IndexError for parents[0] of an empty list, KeyError for a missing field.
Produce(br, field, d, pars, p1, p2) ==
    CASE br = "random" -> [raised |-> FALSE, value |-> RandomValue(field, d)]
      [] br = "mutate" ->
           IF pars # << >> /\ Has(pars[1], field.field_name)
           THEN [raised |-> FALSE, value |-> MutatedValue(field, pars[1], d)]
           ELSE [raised |-> TRUE, value |-> 0]
      [] OTHER ->
           IF Has(p1, field.field_name) /\ Has(p2, field.field_name)
           THEN [raised |-> FALSE, value |-> CrossedValue(field, p1, p2, d)]
           ELSE [raised |-> TRUE, value |-> 0]

\* "set precision if present" (lines 151-153, 170-172, 207-209).
Normalized(field, value) ==
    IF field.field_precision = << >> THEN value
    ELSE limit_to_precision(value, field.field_precision[1])

\* The per-field loop of the taken branch from field i on; it stops at the first exception.
RECURSIVE Build(_, _, _, _, _, _, _)
Build(i, br, d, pars, p1, p2, acc) ==
    IF i > Len(schema) THEN acc
    ELSE LET field == schema[i]
             name == field.field_name
             made == Produce(br, field, d[name], pars, p1, p2)
         IN IF made.raised THEN [acc EXCEPT !.raised = TRUE]
            ELSE IF field.field_precision # << >> /\ PrecisionRaises(field.field_precision[1])
            THEN [raised |-> TRUE,
                  record |-> Put(acc.record, name, made.value),
                  pre |-> Put(acc.pre, name, made.value)]
            ELSE Build(i + 1, br, d, pars, p1, p2,
                       [raised |-> FALSE,
                        record |-> Put(acc.record, name, Normalized(field, made.value)),
                        pre |-> Put(acc.pre, name, made.value)])

(***************************************************************************)
(* The gates (lines 211-232).                                              *)
(***************************************************************************)

\* Mutant: the try block starts after the selection.
CaughtInBreeding(stage) == stage = "breed"

\* The try block spans selection and breeding; `except Exception` returns None for both.
Caught(stage) == stage \in { "select", "breed" }

\* Mutant: the candidate is compared with the first parent only.
IsDuplicateOfFirst(rec, pars) == pars # << >> /\ pars[1] = rec

\* HashableDict(record) in set(HashableDict(parent) ...): dict equality, keys and values.
IsDuplicate(rec, pars) == \E i \in DOMAIN pars : pars[i] = rec

\* schema.validate_record on the values in schema order: range and type of each.
validate_record(rec) ==
    \A i \in DOMAIN schema :
        LET v == rec[schema[i].field_name]
        IN /\ schema[i].field_range[1] <= v
           /\ v <= schema[i].field_range[2]
           /\ (schema[i].field_type = "INT" => v % Radix = 0)

NoneResult == [kind |-> "None", value |-> Empty]

\* Mutant: the validation verdict is ignored.
OutcomeUnvalidated(stage, rec, pars) ==
    IF stage # "no"
    THEN IF Caught(stage) THEN NoneResult ELSE [kind |-> "raise", value |-> Empty]
    ELSE IF IsDuplicate(rec, pars) THEN NoneResult
    ELSE [kind |-> "record", value |-> rec]

\* What the call does once the try block is left with `stage` raised ("no": nothing raised).
Outcome(stage, rec, pars) ==
    IF stage # "no"
    THEN IF Caught(stage) THEN NoneResult ELSE [kind |-> "raise", value |-> Empty]
    ELSE IF IsDuplicate(rec, pars) THEN NoneResult
    ELSE IF ~validate_record(rec) THEN NoneResult
    ELSE [kind |-> "record", value |-> rec]

NoDraws == [n \in FieldNames |-> Draw(0, 0, 0, 0, 0)]

\* Mutant: the candidate is inserted before the gates look at it.
FinishInsertsFirst(pars, count, br, p1, p2, d, built, stage) ==
    LET out == Outcome(stage, built.record, pars)
    IN /\ result' = out
       /\ record_table' = IF stage = "no" THEN Append(record_table, built.record)
                          ELSE record_table
       /\ parents' = pars
       /\ parent_count' = count
       /\ branch' = br
       /\ parent1' = p1
       /\ parent2' = p2
       /\ draws' = d
       /\ pre' = built.pre
       /\ record' = built.record
       /\ error' = stage
       /\ UNCHANGED schema

\* The end of a call: the gates, the insert and the return.
Finish(pars, count, br, p1, p2, d, built, stage) ==
    LET out == Outcome(stage, built.record, pars)
    IN /\ result' = out
       /\ record_table' = IF out.kind = "record" THEN Append(record_table, out.value)
                          ELSE record_table
       /\ parents' = pars
       /\ parent_count' = count
       /\ branch' = br
       /\ parent1' = p1
       /\ parent2' = p2
       /\ draws' = d
       /\ pre' = built.pre
       /\ record' = built.record
       /\ error' = stage
       /\ UNCHANGED schema

Nothing == [raised |-> FALSE, record |-> Empty, pre |-> Empty]

\* What lines 126-130 can leave in `parents` on the current table, over the
\* arguments callers pass.
Selections ==
    { SelectParents(record_table, fitness_query, sort_cond, sort_ascending, limit_value) :
        fitness_query \in Queries, sort_cond \in SortConditions,
        sort_ascending \in BOOLEAN, limit_value \in Limits }

\* GASearch.generate_child, one whole call.
generate_child ==
    /\ result.kind = "idle"
    /\ Len(record_table) < MaxTable
    /\ \E s \in Selections, count \in ParentCounts :
          LET pars == s.value
              br == Branch(Len(pars), count)
          IN IF s.raised
             THEN Finish(pars, count, "none", Empty, Empty, NoDraws, Nothing, "select")
             ELSE \E i1, i2 \in (IF br = "crossover" THEN DOMAIN pars ELSE { 0 }) :
                  \E d \in DrawFunctions(br) :
                     LET p1 == IF br = "crossover" THEN pars[i1] ELSE Empty
                         p2 == IF br = "crossover" THEN pars[i2] ELSE Empty
                         built == Build(1, br, d, pars, p1, p2, Nothing)
                     IN Finish(pars, count, br, p1, p2, d, built,
                               IF built.raised THEN "breed" ELSE "no")

\* No call is running: the locals of generate_child do not exist.
Idle ==
    /\ parents = << >>
    /\ parent_count = << >>
    /\ branch = "none"
    /\ parent1 = Empty
    /\ parent2 = Empty
    /\ draws = NoDraws
    /\ pre = Empty
    /\ record = Empty
    /\ error = "no"
    /\ result = [kind |-> "idle", value |-> Empty]

\* The caller takes what generate_child returned (line 286); the call's locals are gone.
caller_resumes ==
    /\ result.kind # "idle"
    /\ parents' = << >>
    /\ parent_count' = << >>
    /\ branch' = "none"
    /\ parent1' = Empty
    /\ parent2' = Empty
    /\ draws' = NoDraws
    /\ pre' = Empty
    /\ record' = Empty
    /\ error' = "no"
    /\ result' = [kind |-> "idle", value |-> Empty]
    /\ UNCHANGED << schema, record_table >>

\* GASearch.__init__: load_schema, then load_records fills the empty records table.
Init ==
    /\ \E project \in Projects : schema = project[1] /\ record_table = project[2]
    /\ Idle

Next == generate_child \/ caller_resumes

Spec == Init /\ [][Next]_vars

(***************************************************************************)
(* Properties.                                                             *)
(***************************************************************************)

Returned == result.kind = "record"

Precise(field) == field.field_precision # << >>

InRange(field, v) == field.field_range[1] <= v /\ v <= field.field_range[2]

\* The number of significant digits of n > 0: its digits without the trailing zeros.
RECURSIVE SigDigits(_)
SigDigits(n) == IF n % Radix = 0 /\ n >= Radix THEN SigDigits(n \div Radix) ELSE NumDigits(n)

\* t is v cut to p significant digits toward zero: same sign, no larger in
\* magnitude, at most p significant digits, less than one unit of the last kept digit away.
CutTowardZero(t, v, p) ==
    /\ (v >= 0 => t >= 0) /\ (v <= 0 => t <= 0)
    /\ Abs(t) <= Abs(v)
    /\ (t # 0 => SigDigits(Abs(t)) <= p)
    /\ Abs(v) - Abs(t) < Pow(NumDigits(Abs(v)) - p)

\* t is v cut to p significant digits toward minus infinity (floor).
CutToFloor(t, v, p) ==
    /\ t <= v
    /\ (t # 0 => SigDigits(Abs(t)) <= p)
    /\ v - t < Pow(NumDigits(Abs(v)) - p)

\* C1: every returned record has each schema field's value within the field's range.
C1_RangeInvariant ==
    Returned => \A i \in DOMAIN schema : InRange(schema[i], result.value[schema[i].field_name])

\* C1 witness: a mutation returned a record one of whose values was truncated after the clamp.
C1_Witness ==
    /\ Returned /\ branch = "mutate"
    /\ \E i \in DOMAIN schema :
          /\ Precise(schema[i])
          /\ pre[schema[i].field_name] = schema[i].field_range[2]
          /\ result.value[schema[i].field_name] # pre[schema[i].field_name]

\* C2: a returned record differs from every selected parent, and a candidate that
\* equals a selected parent makes the call return None.
C2_NoDuplicateOfParent ==
    /\ Returned => \A i \in DOMAIN parents : parents[i] # result.value
    /\ (error = "no" /\ \E i \in DOMAIN parents : parents[i] = record) => result.kind = "None"

\* C2 witness: a complete candidate equal to the second selected parent was rejected.
C2_Witness ==
    /\ error = "no" /\ Len(parents) = 2
    /\ parents[2] = record /\ parents[1] # record
    /\ result.kind = "None"

\* C3 (as claimed): the record table never holds two equal records.
C3_TableHasNoEqualRecords ==
    \A i, j \in DOMAIN record_table : i # j => record_table[i] # record_table[j]

\* C4 (as claimed): the branch is decided by the override when given, else by len(parents).
C4_DispatchByEffectiveCount ==
    branch # "none" =>
        LET n == IF parent_count # << >> THEN parent_count[1] ELSE Len(parents)
        IN branch = (IF n = 0 THEN "random" ELSE IF n = 1 THEN "mutate" ELSE "crossover")

\* C4 (amended): random generation iff no parent is selected or the override is 0;
\* otherwise mutation iff one parent is selected or the override is 1; otherwise crossover.
C4_DispatchByEitherCount ==
    branch # "none" =>
        LET zero == Len(parents) = 0 \/ parent_count = << 0 >>
            one == Len(parents) = 1 \/ parent_count = << 1 >>
        IN /\ branch = "random" <=> zero
           /\ branch = "mutate" <=> (~zero /\ one)
           /\ branch = "crossover" <=> (~zero /\ ~one)

\* C4 witness: override 2 with one selected parent mutates.
C4_Witness == parent_count = << 2 >> /\ Len(parents) = 1 /\ branch = "mutate"

\* C5 (as claimed): an error of the selection stage reaches the caller as a raised
\* error, an error of the breeding stage as None.
C5_SelectionErrorRaises ==
    /\ error = "select" => result.kind = "raise"
    /\ error = "breed" => result.kind = "None"

\* C5 (amended): an error of either stage is caught: the call returns None and
\* leaves the record table as it was.
C5_ErrorsGiveNone ==
    [][error' # "no" => (result'.kind = "None" /\ record_table' = record_table)]_vars

\* C5 witness: sort_pool raised on a non-empty search result and the call returned None.
C5_Witness == error = "select" /\ parents # << >> /\ result.kind = "None"

\* C6: a call either returns a record with exactly the schema's fields and appends
\* exactly that record, or returns None and leaves the record table unchanged;
\* nothing else changes the record table.
C6_AppendOnlyAllOrNothing ==
    [][\/ /\ result'.kind = "record"
          /\ DOMAIN result'.value = FieldNames
          /\ record_table' = Append(record_table, result'.value)
       \/ /\ result'.kind \in { "None", "idle" }
          /\ record_table' = record_table]_vars

\* C6 witness: a breeding error left a partly built record behind and None was returned.
C6_Witness ==
    /\ error = "breed" /\ record # Empty /\ DOMAIN record # FieldNames
    /\ result.kind = "None"

\* C7 (as claimed): a returned value of a field with precision p is the floor of the
\* produced value at p significant digits; without precision it is the produced value.
C7_PrecisionFloor ==
    Returned =>
        \A i \in DOMAIN schema :
            LET name == schema[i].field_name
            IN IF Precise(schema[i])
               THEN CutToFloor(result.value[name], pre[name], schema[i].field_precision[1])
               ELSE result.value[name] = pre[name]

\* C7 (amended): a returned value of a field with precision p >= 1 is the produced
\* value cut to p significant digits toward zero; without precision it is the
\* produced value; with a field of precision 0 no record is returned.
C7_PrecisionTowardZero ==
    /\ Returned =>
        \A i \in DOMAIN schema :
            LET name == schema[i].field_name
            IN IF Precise(schema[i])
               THEN CutTowardZero(result.value[name], pre[name], schema[i].field_precision[1])
               ELSE result.value[name] = pre[name]
    /\ (\E i \in DOMAIN schema : schema[i].field_precision = << 0 >>) => ~Returned

\* C7 witness: a returned negative value lost digits.
C7_Witness ==
    /\ Returned
    /\ \E i \in DOMAIN schema :
          /\ Precise(schema[i])
          /\ pre[schema[i].field_name] < 0
          /\ result.value[schema[i].field_name] # pre[schema[i].field_name]

\* The field is pushed past its maximum by a +1 draw of the mutation.
PushedOver(field) ==
    /\ draws[field.field_name].sign = 1
    /\ parents[1][field.field_name] + field.field_step > field.field_range[2]

\* C8 (as claimed): a field mutated upward past its maximum is exactly the maximum
\* in the candidate.
C8_MutationClampToMax ==
    (branch = "mutate" /\ error = "no") =>
        \A i \in DOMAIN schema :
            PushedOver(schema[i]) => record[schema[i].field_name] = schema[i].field_range[2]

\* C8 (amended): such a field is the maximum when the field has no precision, and
\* the maximum cut to the field's precision when it has one.
C8_MutationClampThenPrecision ==
    (branch = "mutate" /\ error = "no") =>
        \A i \in DOMAIN schema :
            PushedOver(schema[i]) =>
                record[schema[i].field_name] =
                    IF Precise(schema[i])
                    THEN limit_to_precision(schema[i].field_range[2], schema[i].field_precision[1])
                    ELSE schema[i].field_range[2]

\* C8 witness: a field with a precision was pushed past its maximum and is not the maximum.
C8_Witness ==
    /\ branch = "mutate" /\ error = "no"
    /\ \E i \in DOMAIN schema :
          /\ PushedOver(schema[i]) /\ Precise(schema[i])
          /\ record[schema[i].field_name] # schema[i].field_range[2]

\* The two drawn parents agree on the field and the coin chose to breed it.
AgreedBreed(field) ==
    /\ draws[field.field_name].chance = 2
    /\ parent1[field.field_name] = parent2[field.field_name]

\* C9 (as claimed): a bred field on which the parents agree is exactly their value.
C9_AgreementCollapse ==
    (branch = "crossover" /\ error = "no") =>
        \A i \in DOMAIN schema :
            AgreedBreed(schema[i]) => record[schema[i].field_name] = parent1[schema[i].field_name]

\* C9 (amended): such a field is the parents' value when the field has no precision,
\* and that value cut to the field's precision when it has one, whatever the
\* interpolation draw.
C9_AgreementCollapseThenPrecision ==
    (branch = "crossover" /\ error = "no") =>
        \A i \in DOMAIN schema :
            AgreedBreed(schema[i]) =>
                record[schema[i].field_name] =
                    IF Precise(schema[i])
                    THEN limit_to_precision(parent1[schema[i].field_name],
                                            schema[i].field_precision[1])
                    ELSE parent1[schema[i].field_name]

\* C9 witness: the parents agreed on a bred field with a precision and the candidate differs.
C9_Witness ==
    /\ branch = "crossover" /\ error = "no"
    /\ \E i \in DOMAIN schema :
          /\ AgreedBreed(schema[i]) /\ Precise(schema[i])
          /\ record[schema[i].field_name] # parent1[schema[i].field_name]

\* The parent of a mutation has every schema field within its range.
ParentInRange ==
    \A i \in DOMAIN schema :
        Has(parents[1], schema[i].field_name)
          /\ InRange(schema[i], parents[1][schema[i].field_name])

\* C10 (as claimed): every field of a mutation candidate differs from the parent's.
C10_MutationChangesEveryField ==
    (branch = "mutate" /\ error = "no" /\ ParentInRange) =>
        \A i \in DOMAIN schema : record[schema[i].field_name] # parents[1][schema[i].field_name]

\* C10 (amended): a field without precision differs from the parent's when the
\* stepped value stays within the range, and equals the parent's when the parent
\* sits on the bound the draw steps over; a candidate equal to its parent is
\* rejected with None.
C10_MutationNoOpAtBounds ==
    (branch = "mutate" /\ error = "no" /\ ParentInRange) =>
        /\ \A i \in DOMAIN schema :
              LET name == schema[i].field_name
                  old == parents[1][name]
                  stepped == old + draws[name].sign * schema[i].field_step
              IN ~Precise(schema[i]) =>
                    /\ InRange(schema[i], stepped) => record[name] # old
                    /\ (old = schema[i].field_range[2] /\ draws[name].sign = 1) => record[name] = old
                    /\ (old = schema[i].field_range[1] /\ draws[name].sign = -1) => record[name] = old
        /\ record = parents[1] => result.kind = "None"

\* C10 witness: a mutation reproduced its in-range parent and was rejected.
C10_Witness ==
    /\ branch = "mutate" /\ error = "no" /\ ParentInRange
    /\ record = parents[1] /\ result.kind = "None"

====
